---- MODULE Spec2Model ----
(***************************************************************************)
(* Account-preferences form (static/app/data/forms/accountPreferences.tsx *)
(* and its earlier revision): the customTheme / customThemeColor fields,   *)
(* their getData transform, the customThemeColor validator and visibility  *)
(* predicate, driven by a form whose values the user edits and saves.      *)
(*                                                                         *)
(* Every string value is a sequence of one-character strings, so that      *)
(* trim() and the hex-colour regular expression are computed character by  *)
(* character.  A JavaScript object is a function whose DOMAIN is its set   *)
(* of keys; a key holding undefined is modelled as a missing key (the two  *)
(* are indistinguishable to the code below and in the JSON payload).       *)
(***************************************************************************)
EXTENDS Integers, Sequences, FiniteSets, TLC

VARIABLES form, shown, errors, errors000, saved, data, context, payload, payload000

vars == <<form, shown, errors, errors000, saved, data, context, payload, payload000>>

\* ---------------------------------------------------------------- bounds
\* Longest customThemeColor the user types.
MaxLen == 8

\* Characters the user types: whitespace (which is also a non-hex character
\* when it is inside the text), '#', and a hex digit.
Chars == {" ", "#", "a"}

\* ------------------------------------------------------------- constants
\* {6} of /^#[0-9A-Fa-f]{6}$/
HexLen == 6

HexDigitChars ==
    {"0", "1", "2", "3", "4", "5", "6", "7", "8", "9",
     "a", "b", "c", "d", "e", "f", "A", "B", "C", "D", "E", "F"}

\* Characters String.prototype.trim() strips (those that can be typed).
WhiteSpaceChars == {" ", "\t", "\n", "\r"}

DEFAULT == <<"d", "e", "f", "a", "u", "l", "t">>
CUSTOM == <<"c", "u", "s", "t", "o", "m">>
SquashedBug == <<"#", "8", "0", "9", "8", "4", "8">>
RubberDucky == <<"#", "f", "7", "b", "5", "3", "8">>

\* values of the customTheme select
ThemeOptions == {DEFAULT, SquashedBug, RubberDucky, CUSTOM}

MsgRequired == "Please provide a hex color when selecting custom theme"
MsgInvalid == "Please enter a valid hex color (e.g., #ff5722)"

\* ------------------------------------------------------- object helpers
EmptyObject == [k \in {} |-> <<>>]

Has(obj, key) == key \in DOMAIN obj

\* JavaScript truthiness of obj[key] for a string-or-undefined value
Truthy(obj, key) == Has(obj, key) /\ obj[key] # <<>>

\* obj[key] === value
Is(obj, key, value) == Has(obj, key) /\ obj[key] = value

\* obj[key] = value (assignment)
Put(obj, key, value) ==
    [k \in DOMAIN obj \cup {key} |-> IF k = key THEN value ELSE obj[k]]

\* {[key]: obj[key]}
Pick(obj, key) == [k \in DOMAIN obj \cap {key} |-> obj[k]]

\* ------------------------------------------------------ string helpers
RECURSIVE trimStart(_)
trimStart(s) ==
    IF s # <<>> /\ Head(s) \in WhiteSpaceChars THEN trimStart(Tail(s)) ELSE s

RECURSIVE trimEnd(_)
trimEnd(s) ==
    IF s # <<>> /\ s[Len(s)] \in WhiteSpaceChars
    THEN trimEnd(SubSeq(s, 1, Len(s) - 1))
    ELSE s

trim(s) == trimEnd(trimStart(s))

\* /^#[0-9A-Fa-f]{6}$/.test(s)
testHexColor(s) ==
    /\ Len(s) = HexLen + 1
    /\ s[1] = "#"
    /\ \A i \in 2..Len(s) : s[i] \in HexDigitChars

\* ---------------------------------------------------------- transforms
transformOptions(d) == [options |-> d]

\* variant: the 'custom' branch is missing, the literal is sent
transformCustomTheme_keepLiteral(d, ctx) ==
    LET formData == IF Truthy(ctx, "form") THEN ctx.form ELSE EmptyObject
        transformedData == [k \in DOMAIN d \ {"customThemeColor"} |-> d[k]]
    IN  [options |->
            IF Truthy(formData, "customTheme") /\ ~Is(formData, "customTheme", DEFAULT)
            THEN Put(transformedData, "customTheme", formData.customTheme)
            ELSE IF Is(formData, "customTheme", DEFAULT)
            THEN Put(transformedData, "customTheme", DEFAULT)
            ELSE transformedData]

\* variant: the last branch is a plain else that always sends 'default'
transformCustomTheme_elseDefault(d, ctx) ==
    LET formData == IF Truthy(ctx, "form") THEN ctx.form ELSE EmptyObject
        transformedData == [k \in DOMAIN d \ {"customThemeColor"} |-> d[k]]
    IN  [options |->
            IF Is(formData, "customTheme", CUSTOM) /\ Truthy(formData, "customThemeColor")
            THEN Put(transformedData, "customTheme", formData.customThemeColor)
            ELSE IF Truthy(formData, "customTheme") /\ ~Is(formData, "customTheme", DEFAULT)
            THEN Put(transformedData, "customTheme", formData.customTheme)
            ELSE Put(transformedData, "customTheme", DEFAULT)]

\* variant: customThemeColor is not filtered out of the submitted data
transformCustomTheme_noFilter(d, ctx) ==
    LET formData == IF Truthy(ctx, "form") THEN ctx.form ELSE EmptyObject
        transformedData == d
    IN  [options |->
            IF Is(formData, "customTheme", CUSTOM) /\ Truthy(formData, "customThemeColor")
            THEN Put(transformedData, "customTheme", formData.customThemeColor)
            ELSE IF Truthy(formData, "customTheme") /\ ~Is(formData, "customTheme", DEFAULT)
            THEN Put(transformedData, "customTheme", formData.customTheme)
            ELSE IF Is(formData, "customTheme", DEFAULT)
            THEN Put(transformedData, "customTheme", DEFAULT)
            ELSE transformedData]

\* variant: the first branch tests only that a customThemeColor is present
transformCustomTheme_colorFirst(d, ctx) ==
    LET formData == IF Truthy(ctx, "form") THEN ctx.form ELSE EmptyObject
        transformedData == [k \in DOMAIN d \ {"customThemeColor"} |-> d[k]]
    IN  [options |->
            IF Truthy(formData, "customThemeColor")
            THEN Put(transformedData, "customTheme", formData.customThemeColor)
            ELSE IF Truthy(formData, "customTheme") /\ ~Is(formData, "customTheme", DEFAULT)
            THEN Put(transformedData, "customTheme", formData.customTheme)
            ELSE IF Is(formData, "customTheme", DEFAULT)
            THEN Put(transformedData, "customTheme", DEFAULT)
            ELSE transformedData]

\* variant: the 'default' branch is missing, customTheme is left as submitted
transformCustomTheme_omitDefault(d, ctx) ==
    LET formData == IF Truthy(ctx, "form") THEN ctx.form ELSE EmptyObject
        transformedData == [k \in DOMAIN d \ {"customThemeColor"} |-> d[k]]
    IN  [options |->
            IF Is(formData, "customTheme", CUSTOM) /\ Truthy(formData, "customThemeColor")
            THEN Put(transformedData, "customTheme", formData.customThemeColor)
            ELSE IF Truthy(formData, "customTheme") /\ ~Is(formData, "customTheme", DEFAULT)
            THEN Put(transformedData, "customTheme", formData.customTheme)
            ELSE transformedData]

transformCustomTheme(d, ctx) ==
    LET formData == IF Truthy(ctx, "form") THEN ctx.form ELSE EmptyObject
        transformedData == [k \in DOMAIN d \ {"customThemeColor"} |-> d[k]]
    IN  [options |->
            IF Is(formData, "customTheme", CUSTOM) /\ Truthy(formData, "customThemeColor")
            THEN Put(transformedData, "customTheme", formData.customThemeColor)
            ELSE IF Truthy(formData, "customTheme") /\ ~Is(formData, "customTheme", DEFAULT)
            THEN Put(transformedData, "customTheme", formData.customTheme)
            ELSE IF Is(formData, "customTheme", DEFAULT)
            THEN Put(transformedData, "customTheme", DEFAULT)
            ELSE transformedData]

transformCustomTheme000(d, ctx) ==
    LET formData == IF Truthy(ctx, "form") THEN ctx.form ELSE EmptyObject
        transformedData == [k \in DOMAIN d \ {"customThemeColor"} |-> d[k]]
    IN  [options |->
            IF Is(formData, "customTheme", CUSTOM) /\ Truthy(formData, "customThemeColor")
            THEN Put(transformedData, "customTheme", formData.customThemeColor)
            ELSE IF Truthy(formData, "customTheme")
            THEN Put(transformedData, "customTheme", formData.customTheme)
            ELSE transformedData]

\* ---------------------------------------------------------- validation
\* variant: the required check does not trim
validate_noTrim(f) ==
    IF Is(f, "customTheme", CUSTOM)
    THEN IF ~Truthy(f, "customThemeColor")
         THEN << <<"customThemeColor", MsgRequired>> >>
         ELSE IF ~testHexColor(trim(f.customThemeColor))
         THEN << <<"customThemeColor", MsgInvalid>> >>
         ELSE <<>>
    ELSE <<>>

\* variant: the pattern is tested against the untrimmed text
validate_untrimmedTest(f) ==
    IF Is(f, "customTheme", CUSTOM)
    THEN IF ~Truthy(f, "customThemeColor") \/ trim(f.customThemeColor) = <<>>
         THEN << <<"customThemeColor", MsgRequired>> >>
         ELSE IF ~testHexColor(f.customThemeColor)
         THEN << <<"customThemeColor", MsgInvalid>> >>
         ELSE <<>>
    ELSE <<>>

\* variant: the pattern check is not restricted to customTheme 'custom'
validate_unguarded(f) ==
    IF Is(f, "customTheme", CUSTOM)
       /\ (~Truthy(f, "customThemeColor") \/ trim(f.customThemeColor) = <<>>)
    THEN << <<"customThemeColor", MsgRequired>> >>
    ELSE IF Truthy(f, "customThemeColor") /\ ~testHexColor(trim(f.customThemeColor))
    THEN << <<"customThemeColor", MsgInvalid>> >>
    ELSE <<>>

validate(f) ==
    IF Is(f, "customTheme", CUSTOM)
    THEN IF ~Truthy(f, "customThemeColor") \/ trim(f.customThemeColor) = <<>>
         THEN << <<"customThemeColor", MsgRequired>> >>
         ELSE IF ~testHexColor(trim(f.customThemeColor))
         THEN << <<"customThemeColor", MsgInvalid>> >>
         ELSE <<>>
    ELSE <<>>

validate000(f) ==
    IF Is(f, "customTheme", CUSTOM)
       /\ (~Truthy(f, "customThemeColor") \/ trim(f.customThemeColor) = <<>>)
    THEN << <<"customThemeColor", MsgRequired>> >>
    ELSE IF /\ Is(f, "customTheme", CUSTOM)
            /\ Truthy(f, "customThemeColor")
            /\ ~testHexColor(trim(f.customThemeColor))
    THEN << <<"customThemeColor", MsgInvalid>> >>
    ELSE <<>>

\* ---------------------------------------------------------- visibility
\* model?.getValue('customTheme') === 'custom'
\* variant: the field stays visible once a colour has been entered
visible_sticky(model) ==
    Is(model, "customTheme", CUSTOM) \/ Truthy(model, "customThemeColor")

visible(model) == Is(model, "customTheme", CUSTOM)

\* ---------------------------------------------------------------- state
\* customTheme values the settings endpoint can hand back on load: never
\* set, empty, an option of the select, or a colour saved through 'custom'.
StoredThemes == ThemeOptions \cup {<<>>, <<"#", "a", "a", "a", "a", "a", "a">>}

Init ==
    /\ form \in {EmptyObject} \cup {[customTheme |-> v] : v \in StoredThemes}
    /\ shown = visible(form)
    /\ errors = validate(form)
    /\ errors000 = validate000(form)
    /\ saved = FALSE
    /\ data = EmptyObject
    /\ context = EmptyObject
    /\ payload = transformOptions(EmptyObject)
    /\ payload000 = transformOptions(EmptyObject)

\* The form engine stores a changed value, then recomputes visibility and
\* validation from the new state; results of an earlier save no longer
\* describe the form.
Change(f) ==
    /\ form' = f
    /\ shown' = visible(f)
    /\ errors' = validate(f)
    /\ errors000' = validate000(f)
    /\ saved' = FALSE
    /\ data' = EmptyObject
    /\ context' = EmptyObject
    /\ payload' = transformOptions(EmptyObject)
    /\ payload000' = transformOptions(EmptyObject)

\* the user picks an option of the customTheme select
SetCustomTheme(v) ==
    /\ ~Is(form, "customTheme", v)
    /\ Change(Put(form, "customTheme", v))

\* the user types one more character into the (visible) customThemeColor input
TypeColor(c) ==
    /\ shown
    /\ LET old == IF Has(form, "customThemeColor") THEN form.customThemeColor ELSE <<>>
       IN  /\ Len(old) < MaxLen
           /\ Change(Put(form, "customThemeColor", Append(old, c)))

\* the user deletes the last character of the customThemeColor input
EraseColor ==
    /\ shown
    /\ Truthy(form, "customThemeColor")
    /\ Change(Put(form, "customThemeColor",
                  SubSeq(form.customThemeColor, 1, Len(form.customThemeColor) - 1)))

\* the form engine saves one field: getData({[id]: value}, context), where
\* the optional context carries the whole form state
SaveField(id, withContext) ==
    /\ saved' = TRUE
    /\ data' = Pick(form, id)
    /\ context' = IF withContext THEN [form |-> form] ELSE EmptyObject
    /\ payload' = transformCustomTheme(data', context')
    /\ payload000' = transformCustomTheme000(data', context')
    /\ UNCHANGED <<form, shown, errors, errors000>>

Next ==
    \/ \E v \in ThemeOptions : SetCustomTheme(v)
    \/ \E c \in Chars : TypeColor(c)
    \/ EraseColor
    \/ \E id \in {"customTheme", "customThemeColor"}, withContext \in BOOLEAN :
          SaveField(id, withContext)

Spec == Init /\ [][Next]_vars

\* ------------------------------------------------------------ properties
\* the form state the last getData call received through its context
formState == IF Truthy(context, "form") THEN context.form ELSE EmptyObject

\* both revisions of the transform returned this customTheme
SentCustomTheme(v) ==
    /\ Is(payload.options, "customTheme", v)
    /\ Is(payload000.options, "customTheme", v)

\* both revisions of the validator returned this error sequence
Reported(errs) == errors = errs /\ errors000 = errs

RequiredError == << <<"customThemeColor", MsgRequired>> >>
InvalidError == << <<"customThemeColor", MsgInvalid>> >>

\* the customThemeColor text of the current form is present and not blank
ColorGiven == Truthy(form, "customThemeColor") /\ trim(form.customThemeColor) # <<>>

\* C1: when the form state has customTheme 'custom' and a non-empty
\* customThemeColor, the payload's options.customTheme is that colour string,
\* whichever field was submitted.
C1_CustomSendsColor ==
    (saved /\ Is(formState, "customTheme", CUSTOM) /\ Truthy(formState, "customThemeColor"))
        => SentCustomTheme(formState.customThemeColor)

C1_Witness ==
    /\ saved
    /\ Is(formState, "customTheme", CUSTOM)
    /\ Truthy(formState, "customThemeColor")
    /\ Has(data, "customThemeColor")
    /\ Is(payload.options, "customTheme", formState.customThemeColor)

\* C2 as stated: in every case outside the first two rules (customTheme
\* 'default', absent or empty) the payload's options.customTheme is 'default'.
C2_ElseSendsDefault ==
    (/\ saved
     /\ ~(Is(formState, "customTheme", CUSTOM) /\ Truthy(formState, "customThemeColor"))
     /\ ~(Truthy(formState, "customTheme") /\ ~Is(formState, "customTheme", DEFAULT)))
        => SentCustomTheme(DEFAULT)

\* C2 amended: with customTheme 'default' in the form state the payload's
\* options.customTheme is 'default'; with customTheme absent or empty the
\* transform sets nothing: options.customTheme is the submitted customTheme
\* when one was submitted and is missing otherwise.
C2_DefaultOrUntouched ==
    /\ (saved /\ Is(formState, "customTheme", DEFAULT)) => SentCustomTheme(DEFAULT)
    /\ (saved /\ ~Truthy(formState, "customTheme")) =>
          IF Has(data, "customTheme")
          THEN SentCustomTheme(data.customTheme)
          ELSE /\ ~Has(payload.options, "customTheme")
               /\ ~Has(payload000.options, "customTheme")

C2_Witness ==
    /\ saved
    /\ ~Truthy(formState, "customTheme")
    /\ Has(data, "customTheme")
    /\ data.customTheme # DEFAULT
    /\ Is(payload.options, "customTheme", data.customTheme)

\* C3: the payload's options never contain the key customThemeColor, also
\* when customThemeColor is the submitted field.
C3_ColorKeyNeverSent ==
    /\ ~Has(payload.options, "customThemeColor")
    /\ ~Has(payload000.options, "customThemeColor")

C3_Witness ==
    /\ saved
    /\ Has(data, "customThemeColor")
    /\ ~Has(payload.options, "customThemeColor")

\* C4: when the form state's customTheme is set and is neither 'custom' nor
\* 'default', the payload's options.customTheme is that value, whatever
\* customThemeColor holds.
C4_PresetPassesThrough ==
    (/\ saved
     /\ Truthy(formState, "customTheme")
     /\ ~Is(formState, "customTheme", CUSTOM)
     /\ ~Is(formState, "customTheme", DEFAULT))
        => SentCustomTheme(formState.customTheme)

C4_Witness ==
    /\ saved
    /\ Is(formState, "customTheme", SquashedBug)
    /\ Truthy(formState, "customThemeColor")
    /\ Is(payload.options, "customTheme", SquashedBug)

\* C5: with customTheme 'custom' and customThemeColor absent, empty or only
\* whitespace, validation returns exactly the one required-colour error.
C5_BlankColorRequired ==
    (Is(form, "customTheme", CUSTOM) /\ ~ColorGiven) => Reported(RequiredError)

C5_Witness ==
    /\ Is(form, "customTheme", CUSTOM)
    /\ Truthy(form, "customThemeColor")
    /\ trim(form.customThemeColor) = <<>>
    /\ errors = RequiredError

\* C6 as stated: with customTheme 'custom' and a non-blank customThemeColor,
\* validation returns the single invalid-format error if and only if
\* customThemeColor itself does not match '#' plus exactly 6 hex digits, and
\* no errors otherwise.
C6_InvalidIffNoStrictMatch ==
    (Is(form, "customTheme", CUSTOM) /\ ColorGiven) =>
        Reported(IF testHexColor(form.customThemeColor) THEN <<>> ELSE InvalidError)

\* C6 amended: ... if and only if customThemeColor with its leading and
\* trailing whitespace removed does not match '#' plus exactly 6 hex digits.
C6_InvalidIffNoTrimmedMatch ==
    (Is(form, "customTheme", CUSTOM) /\ ColorGiven) =>
        Reported(IF testHexColor(trim(form.customThemeColor)) THEN <<>> ELSE InvalidError)

C6_Witness ==
    /\ Is(form, "customTheme", CUSTOM)
    /\ ColorGiven
    /\ form.customThemeColor # trim(form.customThemeColor)
    /\ testHexColor(trim(form.customThemeColor))
    /\ errors = <<>>

\* C7: with customTheme other than 'custom' (absent, 'default', a preset)
\* validation returns no errors, whatever customThemeColor holds.
C7_NotCustomNoErrors ==
    ~Is(form, "customTheme", CUSTOM) => Reported(<<>>)

C7_Witness ==
    /\ Is(form, "customTheme", SquashedBug)
    /\ ColorGiven
    /\ ~testHexColor(trim(form.customThemeColor))
    /\ errors = <<>>

\* C8: the customThemeColor field is visible exactly when the current
\* customTheme is 'custom', independently of earlier selections.
C8_VisibleIffCustom ==
    shown <=> Is(form, "customTheme", CUSTOM)

C8_Witness ==
    /\ ~shown
    /\ Truthy(form, "customThemeColor")
    /\ Is(form, "customTheme", DEFAULT)

\* C9: when a form state with customTheme 'custom' passes validation, the
\* options.customTheme computed from that same form state matches '#' plus
\* exactly 6 hex digits.
C9_ValidatedPayloadIsHex ==
    (/\ saved
     /\ formState = form
     /\ Is(form, "customTheme", CUSTOM)
     /\ errors = <<>>)
        => /\ Has(payload.options, "customTheme")
           /\ testHexColor(payload.options.customTheme)

\* C10: both revisions of transformCustomTheme return the same payload for
\* the same submitted data and context.
C10_RevisionsAgree ==
    payload = payload000

C10_Witness ==
    /\ saved
    /\ Is(formState, "customTheme", DEFAULT)
    /\ Has(data, "customThemeColor")
    /\ payload = payload000

====
